---- MODULE Spec2Model ----
(***************************************************************************)
(* Model of script.py: one run of main() fetches the profiles of a Klaviyo *)
(* segment page by page, update_cache() sends "Joined Segment" events for  *)
(* the profiles missing from cache.json and rewrites the file, and         *)
(* remove_stale_profiles() sends "Left Segment" events for the cached      *)
(* profiles not fetched and rewrites the file again.  The process may be   *)
(* killed between any two steps, and main() may be run again afterwards.   *)
(*                                                                         *)
(* Time: datetime.now() is read from the counter clock, which never goes   *)
(* back.  The first HTTP round trip of a run advances it, so a reading in  *)
(* a run is later than every reading of an earlier run; within a run the   *)
(* counter may stand still.                                                *)
(***************************************************************************)
EXTENDS Integers, Sequences, FiniteSets, TLC

(* ---------------------------------------------------------------- bounds *)
MaxRuns == 2
MaxPages == 2

Ids == {"a", "b", "c"}

(* ------------------------------------------------------------- constants *)
None == 0
StartClock == 1
PageSize == 1       \* "page[size]": 100 of line 26, scaled down

VARIABLES
    file,           \* content of CACHE_FILE on disk
    clock,          \* datetime.now(timezone.utc)
    pc,             \* position of the process in main()
    exc,            \* exception that ended the run, "none" otherwise
    runs,           \* number of runs of main() started so far
    url,            \* fetch_profiles: number of the page requested next, 0 = no url
    profiles,       \* fetch_profiles: the list collected / main: its result
    cache,          \* update_cache / remove_stale_profiles: the loaded dict
    new_profiles,   \* update_cache: list(set(profiles) - set(cache["profiles"]))
    stale_profiles, \* remove_stale_profiles: the set, in its iteration order
    idx,            \* index of the next element of the for loop in progress
    file0,          \* history: file when the run started
    fetched,        \* history: set of the list fetch_profiles returned in this run
    reads,          \* history: loads of CACHE_FILE in this run
    writes,         \* history: completed json.dump of CACHE_FILE in this run
    joined,         \* history: "Joined Segment" attempts per identity in this run
    left,           \* history: "Left Segment" attempts per identity in this run
    failed,         \* history: <<event, identity>> of the first attempt of this run
                    \*          that failed, <<>> while none has
    log,            \* the lines the last step logged
    steps,          \* history: fetch, read, joined, left, write events of this run, in order
    fetch_failure,  \* history: the page request of this run that failed, if one did
    prev            \* history: summary of the previous run

vars == <<file, clock, pc, exc, runs, url, profiles, cache, new_profiles,
          stale_profiles, idx, file0, fetched, reads, writes, joined, left, failed,
          log, steps, fetch_failure, prev>>

(* ------------------------------------------------------------ data model *)
ToSet(s) == {s[i] : i \in DOMAIN s}

NoDup(s) == \A i, j \in DOMAIN s : i # j => s[i] # s[j]

\* list(S) of a Python set: the elements once each, in an order that is not fixed
ListOf(S) == {s \in [1..Cardinality(S) -> S] : ToSet(s) = S}

\* a page of the segment: the emails of at most PageSize profiles
Pages == UNION {[1..n -> Ids] : n \in 0..PageSize}

\* contents of CACHE_FILE
Rec(k, p, t) == [kind |-> k, profiles |-> p, last_updated |-> t]
Missing == Rec("missing", <<>>, None)        \* no such file
Unreadable == Rec("unreadable", <<>>, None)  \* open(..., "r") raises PermissionError
Corrupt == Rec("corrupt", <<>>, None)        \* json.load raises JSONDecodeError
Malformed == Rec("malformed", <<>>, None)    \* JSON, but no "profiles" key: {}
Valid(p, t) == Rec("valid", p, t)            \* {"profiles": p, "last_updated": t}

DefaultCache == [profiles |-> <<>>, last_updated |-> None]

NoAttempts == [e \in Ids |-> 0]

\* summary of a run: how it ended, what it fetched, the member set and the
\* last_updated of the record it started with, and its attempts
NoPrev == [outcome |-> "none", fetched |-> {}, members |-> {}, last_updated |-> None,
           joined |-> NoAttempts, left |-> NoAttempts]

\* no page request has failed; otherwise the number of the page, how its
\* request failed, and the identities fetch_profiles had collected by then
NoFetchFailure == [page |-> 0, how |-> "none", collected |-> {}]

Running == {"fetch_profiles", "update_cache", "uc_push", "uc_open", "uc_dump",
            "remove_stale_profiles", "rs_push", "rs_open", "rs_dump"}
Ended == {"done", "error", "killed"}

(* ------------------------------------------------------------------ Init *)
\* cache.json before the first run: absent, unusable, the empty default, or what
\* an earlier run wrote (no identity twice, stamped with a past time)
InitFiles ==
    {Missing, Unreadable, Corrupt, Malformed, Valid(<<>>, None)}
    \cup {Valid(p, StartClock) : p \in UNION {ListOf(S) : S \in (SUBSET Ids) \ {{}}}}

Init ==
    /\ file \in InitFiles
    /\ clock = StartClock
    /\ pc = "idle"
    /\ exc = "none"
    /\ runs = 0
    /\ url = 0
    /\ profiles = <<>>
    /\ cache = DefaultCache
    /\ new_profiles = <<>>
    /\ stale_profiles = <<>>
    /\ idx = 0
    /\ file0 = file
    /\ fetched = {}
    /\ reads = 0
    /\ writes = 0
    /\ joined = NoAttempts
    /\ left = NoAttempts
    /\ failed = <<>>
    /\ log = {}
    /\ steps = <<>>
    /\ fetch_failure = NoFetchFailure
    /\ prev = NoPrev

(* --------------------------------------------------------------- helpers *)
\* the process ends (return, exception or kill): its memory is gone
Exit(p, e) ==
    /\ pc' = p
    /\ exc' = e
    /\ url' = 0
    /\ profiles' = <<>>
    /\ cache' = DefaultCache
    /\ new_profiles' = <<>>
    /\ stale_profiles' = <<>>
    /\ idx' = 0

Others == <<file0, reads, writes, joined, left, failed, steps, prev>>

History == <<file0, fetched, reads, writes, joined, left, failed, steps, prev>>

(* ------------------------------------------------------------------ main *)
\* python script.py: main() is entered
Main ==
    /\ pc \in Ended \cup {"idle"}
    /\ runs < MaxRuns
    /\ runs' = runs + 1
    /\ pc' = "fetch_profiles"
    /\ exc' = "none"
    /\ url' = 1
    /\ profiles' = <<>>
    /\ cache' = DefaultCache
    /\ new_profiles' = <<>>
    /\ stale_profiles' = <<>>
    /\ idx' = 0
    /\ file0' = file
    /\ fetched' = {}
    /\ reads' = 0
    /\ writes' = 0
    /\ joined' = NoAttempts
    /\ left' = NoAttempts
    /\ failed' = <<>>
    /\ log' = {}
    /\ steps' = <<"fetch">>
    /\ fetch_failure' = NoFetchFailure
    /\ prev' = IF pc = "idle" THEN NoPrev
               ELSE [outcome |-> pc, fetched |-> fetched,
                     members |-> ToSet(file0.profiles),
                     last_updated |-> file0.last_updated,
                     joined |-> joined, left |-> left]
    /\ UNCHANGED <<file, clock>>

\* main without the test of line 141: an empty list is reconciled too
MainGate_NoTest(result) ==
    /\ fetched' = ToSet(result)
    /\ pc' = "update_cache"
    /\ profiles' = result
    /\ url' = 0
    /\ UNCHANGED <<exc, cache, new_profiles, stale_profiles, idx>>

\* main, lines 141-145, on the list fetch_profiles returned
MainGate(result) ==
    /\ fetched' = ToSet(result)
    /\ IF result # <<>>
       THEN /\ pc' = "update_cache"
            /\ profiles' = result
            /\ url' = 0
            /\ UNCHANGED <<exc, cache, new_profiles, stale_profiles, idx>>
       ELSE Exit("done", "none")

(* -------------------------------------------------------- fetch_profiles *)
\* the clock after the request for page n: the first request of a run takes time
Tick(n) == IF n = 1 THEN clock + 1 ELSE clock

\* one turn of the while loop with status 200: the page is appended and the
\* loop goes on while the response has a next link
FetchPageOk ==
    /\ pc = "fetch_profiles"
    /\ \E page \in Pages, next \in BOOLEAN :
        /\ next => url < MaxPages
        /\ clock' = Tick(url)
        /\ IF next
           THEN /\ profiles' = profiles \o page
                /\ url' = url + 1
                /\ log' = {}
                /\ UNCHANGED <<pc, exc, cache, new_profiles, stale_profiles, idx, fetched>>
           ELSE /\ MainGate(profiles \o page)
                /\ log' = IF profiles \o page = <<>>
                          THEN {"W:no_profiles"} ELSE {}
    /\ UNCHANGED <<file, runs, fetch_failure>>
    /\ UNCHANGED Others

\* lines 34-36 with "return profiles" for "return []": the pages fetched before
\* the failure are reconciled
FetchPageStatus_ReturnsCollected ==
    /\ pc = "fetch_profiles"
    /\ clock' = Tick(url)
    /\ MainGate(profiles)
    /\ log' = IF profiles = <<>> THEN {"E:fetch_failed", "W:no_profiles"}
              ELSE {"E:fetch_failed"}
    /\ fetch_failure' = [page |-> url, how |-> "status", collected |-> ToSet(profiles)]
    /\ UNCHANGED <<file, runs>>
    /\ UNCHANGED Others

\* a status other than 200: the error is logged and [] is returned
FetchPageStatus ==
    /\ pc = "fetch_profiles"
    /\ clock' = Tick(url)
    /\ MainGate(<<>>)
    /\ log' = {"E:fetch_failed", "W:no_profiles"}
    /\ fetch_failure' = [page |-> url, how |-> "status", collected |-> ToSet(profiles)]
    /\ UNCHANGED <<file, runs>>
    /\ UNCHANGED Others

\* requests.get raises (no try around it): the exception leaves main
FetchPageRaise ==
    /\ pc = "fetch_profiles"
    /\ clock' = Tick(url)
    /\ Exit("error", "ConnectionError")
    /\ log' = {}
    /\ fetch_failure' = [page |-> url, how |-> "raise", collected |-> ToSet(profiles)]
    /\ UNCHANGED <<file, runs>>
    /\ UNCHANGED History

(* ------------------------------------------------- push_event_to_klaviyo *)
\* what requests.post can do: status 202, another status, or raise
PushOutcomes == {"202", "status", "raise"}

\* lines 78-85 without the except clause: the exception of requests.post leaves
PushRaises_NotCaught(outcome) ==
    IF outcome = "raise" THEN "RequestException" ELSE "none"

\* the exception that leaves push_event_to_klaviyo: the try of lines 78-85
\* catches the requests.RequestException of requests.post, so none does
PushRaises(outcome) == "none"

\* the line push_event_to_klaviyo logs
PushLog(outcome) ==
    CASE outcome = "202" -> "I:event_sent"
      [] outcome = "status" -> "E:send_failed"
      [] outcome = "raise" -> "E:send_error"

(* ------------------------------------------------------------ cache file *)
\* open(CACHE_FILE, "r") and json.load: the exception raised, "none" on success
LoadRaises(f) ==
    CASE f.kind = "missing" -> "FileNotFoundError"
      [] f.kind = "unreadable" -> "PermissionError"
      [] f.kind = "corrupt" -> "JSONDecodeError"
      [] OTHER -> "none"

\* the except clause of lines 92 and 115
Caught == {"FileNotFoundError", "JSONDecodeError"}

\* the dict json.load returns; a key that is absent has no field here
Loaded(f) == [profiles |-> f.profiles, last_updated |-> f.last_updated]

\* the run's accesses to the file and to the network, in their order
Step(e) == Append(steps, e)

(* ---------------------------------------------------------- update_cache *)
\* lines 98-106 with the with block of lines 104-105 indented into the for
\* loop: the file is rewritten after every event
AfterUc_WriteInLoop(at, more) ==
    CASE at = "uc_push" -> "uc_open"
      [] at = "uc_open" -> "uc_dump"
      [] at = "uc_dump" -> IF more THEN "uc_push" ELSE "remove_stale_profiles"

\* lines 98-106 without the with block of lines 104-105: update_cache returns
\* after its loop and the record is not written
AfterUc_NoWrite(at, more) ==
    CASE at = "uc_push" -> IF more THEN "uc_push" ELSE "remove_stale_profiles"
      [] at = "uc_open" -> "uc_dump"
      [] at = "uc_dump" -> "remove_stale_profiles"

\* lines 98-106, the order of the statements: the for loop over new_profiles,
\* then the open and the dump, then the return to main, which calls
\* remove_stale_profiles; more = the loop has elements left
AfterUc(at, more) ==
    CASE at = "uc_push" -> IF more THEN "uc_push" ELSE "uc_open"
      [] at = "uc_open" -> "uc_dump"
      [] at = "uc_dump" -> "remove_stale_profiles"

\* line 95 without the difference: every fetched profile counts as new
NewProfiles_NoDiff(fetchedList, c) == ToSet(fetchedList)

\* line 95 with the operands exchanged
NewProfiles_Swapped(fetchedList, c) == ToSet(c.profiles) \ ToSet(fetchedList)

\* line 95
NewProfiles(fetchedList, c) == ToSet(fetchedList) \ ToSet(c.profiles)

\* lines 101-102 without line 102: the extended list keeps the old stamp
Extended_NotStamped(c, added, now) ==
    [profiles |-> c.profiles \o added, last_updated |-> c.last_updated]

\* lines 101-102 without line 101: stamped, but the new profiles are not recorded
Extended_NotExtended(c, added, now) ==
    [profiles |-> c.profiles, last_updated |-> now]

\* line 101 with profiles for new_profiles: the whole fetched list is appended
Extended_ExtendsWithFetched(c, added, now) ==
    [profiles |-> c.profiles \o profiles, last_updated |-> now]

\* lines 101-102
Extended(c, added, now) ==
    [profiles |-> c.profiles \o added, last_updated |-> now]

\* lines 89-97 and 107-108: load the cache, compute new_profiles, branch
UpdateCacheLoad ==
    /\ pc = "update_cache"
    /\ reads' = reads + 1
    /\ steps' = Step("read")
    /\ LET e == LoadRaises(file) IN
       IF e \notin Caught \cup {"none"}
       THEN /\ Exit("error", e)
            /\ log' = {}
       ELSE IF e = "none" /\ file.kind = "malformed"
       THEN /\ Exit("error", "KeyError")      \* cache["profiles"], line 95
            /\ log' = {}
       ELSE LET c == IF e \in Caught THEN DefaultCache ELSE Loaded(file) IN
            \E np \in ListOf(NewProfiles(profiles, c)) :
                /\ cache' = c
                /\ new_profiles' = np
                /\ IF np # <<>>
                   THEN /\ pc' = "uc_push"
                        /\ idx' = 1
                        /\ log' = {"I:new_profiles"}
                   ELSE /\ pc' = "remove_stale_profiles"
                        /\ idx' = 0
                        /\ log' = {"I:no_new"}
                /\ UNCHANGED <<exc, url, profiles, stale_profiles>>
    /\ UNCHANGED <<file, clock, runs, file0, fetched, writes, joined, left, failed, fetch_failure, prev>>

\* lines 98-99: one turn of the for loop
UcPush ==
    /\ pc = "uc_push"
    /\ \E outcome \in PushOutcomes :
        LET email == new_profiles[idx] IN
        /\ clock' = clock
        /\ joined' = [joined EXCEPT ![email] = @ + 1]
        /\ failed' = IF outcome = "202" \/ failed # <<>> THEN failed
                     ELSE <<"Joined Segment", email>>
        /\ steps' = Step("joined")
        /\ IF PushRaises(outcome) # "none"
           THEN /\ Exit("error", PushRaises(outcome))
                /\ log' = {}
           ELSE /\ log' = {PushLog(outcome)}
                /\ idx' = idx + 1
                /\ pc' = AfterUc("uc_push", idx < Len(new_profiles))
                /\ UNCHANGED <<exc, url, profiles, cache, new_profiles, stale_profiles>>
    /\ UNCHANGED <<file, runs, file0, fetched, reads, writes, left, fetch_failure, prev>>

\* lines 101-104: the dict is extended and stamped, then open(CACHE_FILE, "w")
\* truncates the file, or raises and leaves it alone
UcOpen ==
    /\ pc = "uc_open"
    /\ \E ok \in BOOLEAN :
        IF ok
        THEN /\ cache' = Extended(cache, new_profiles, clock)
             /\ file' = Corrupt
             /\ steps' = Step("write")
             /\ pc' = AfterUc("uc_open", idx <= Len(new_profiles))
             /\ UNCHANGED <<exc, url, profiles, new_profiles, stale_profiles, idx>>
        ELSE /\ Exit("error", "OSError")
             /\ UNCHANGED <<file, steps>>
    /\ log' = {}
    /\ UNCHANGED <<clock, runs, file0, fetched, reads, writes, joined, left, failed, fetch_failure, prev>>

\* lines 104-106 inside a try whose except logs the error: update_cache
\* returns and main goes on to remove_stale_profiles
UcDump_LogsAndGoesOn ==
    /\ pc = "uc_dump"
    /\ \E ok \in BOOLEAN :
        /\ IF ok
           THEN /\ file' = Valid(cache.profiles, cache.last_updated)
                /\ writes' = writes + 1
                /\ log' = {"I:cache_updated"}
           ELSE /\ log' = {"E:write_failed"}
                /\ UNCHANGED <<file, writes>>
        /\ pc' = AfterUc("uc_dump", idx <= Len(new_profiles))
        /\ UNCHANGED <<exc, url, profiles, cache, new_profiles, stale_profiles, idx>>
    /\ UNCHANGED <<clock, runs, file0, fetched, reads, joined, left, failed, steps, fetch_failure, prev>>

\* lines 105-106: json.dump and the close of the with block
UcDump ==
    /\ pc = "uc_dump"
    /\ \E ok \in BOOLEAN :
        IF ok
        THEN /\ file' = Valid(cache.profiles, cache.last_updated)
             /\ writes' = writes + 1
             /\ log' = {"I:cache_updated"}
             /\ pc' = AfterUc("uc_dump", idx <= Len(new_profiles))
             /\ UNCHANGED <<exc, url, profiles, cache, new_profiles, stale_profiles, idx>>
        ELSE /\ Exit("error", "OSError")
             /\ log' = {}
             /\ UNCHANGED <<file, writes>>
    /\ UNCHANGED <<clock, runs, file0, fetched, reads, joined, left, failed, steps, fetch_failure, prev>>

(* ------------------------------------------------- remove_stale_profiles *)
\* line 123 with the operands exchanged
StaleProfiles_Swapped(c, fetchedList) == ToSet(fetchedList) \ ToSet(c.profiles)

\* line 123 without the difference: every cached profile counts as stale
StaleProfiles_AllStale(c, fetchedList) == ToSet(c.profiles)

\* lines 119-123; cache.get("profiles", []) gives [] when the key is absent
StaleProfiles(c, fetchedList) == ToSet(c.profiles) \ ToSet(fetchedList)

\* line 129 without the difference: the stale profiles stay in the list
Pruned_KeepsStale(c, stale, now) ==
    {[profiles |-> l, last_updated |-> now] : l \in ListOf(ToSet(c.profiles))}

\* lines 129-130 without line 130: the pruned list keeps the old stamp
Pruned_NotStamped(c, stale, now) ==
    {[profiles |-> l, last_updated |-> c.last_updated] :
        l \in ListOf(ToSet(c.profiles) \ stale)}

\* line 129: the possible lists, and line 130
Pruned(c, stale, now) ==
    {[profiles |-> l, last_updated |-> now] : l \in ListOf(ToSet(c.profiles) \ stale)}

\* lines 112-125 and 136-137: load the cache, compute stale_profiles, branch
RemoveStaleLoad ==
    /\ pc = "remove_stale_profiles"
    /\ reads' = reads + 1
    /\ steps' = Step("read")
    /\ LET e == LoadRaises(file) IN
       IF e \in Caught
       THEN /\ Exit("done", "none")
            /\ log' = {"W:skip_stale"}
       ELSE IF e # "none"
       THEN /\ Exit("error", e)
            /\ log' = {}
       ELSE LET c == Loaded(file) IN
            \E sp \in ListOf(StaleProfiles(c, profiles)) :
                IF sp # <<>>
                THEN /\ cache' = c
                     /\ stale_profiles' = sp
                     /\ pc' = "rs_push"
                     /\ idx' = 1
                     /\ log' = {"I:stale_removed"}
                     /\ UNCHANGED <<exc, url, profiles, new_profiles>>
                ELSE /\ Exit("done", "none")
                     /\ log' = {"I:no_stale"}
    /\ UNCHANGED <<file, clock, runs, file0, fetched, writes, joined, left, failed, fetch_failure, prev>>

\* lines 126-127: one turn of the for loop
RsPush ==
    /\ pc = "rs_push"
    /\ \E outcome \in PushOutcomes :
        LET email == stale_profiles[idx] IN
        /\ clock' = clock
        /\ left' = [left EXCEPT ![email] = @ + 1]
        /\ failed' = IF outcome = "202" \/ failed # <<>> THEN failed
                     ELSE <<"Left Segment", email>>
        /\ steps' = Step("left")
        /\ IF PushRaises(outcome) # "none"
           THEN /\ Exit("error", PushRaises(outcome))
                /\ log' = {}
           ELSE /\ log' = {PushLog(outcome)}
                /\ idx' = idx + 1
                /\ pc' = IF idx < Len(stale_profiles) THEN "rs_push" ELSE "rs_open"
                /\ UNCHANGED <<exc, url, profiles, cache, new_profiles, stale_profiles>>
    /\ UNCHANGED <<file, runs, file0, fetched, reads, writes, joined, fetch_failure, prev>>

\* lines 129-133
RsOpen ==
    /\ pc = "rs_open"
    /\ \E ok \in BOOLEAN :
        IF ok
        THEN /\ cache' \in Pruned(cache, ToSet(stale_profiles), clock)
             /\ file' = Corrupt
             /\ steps' = Step("write")
             /\ pc' = "rs_dump"
             /\ UNCHANGED <<exc, url, profiles, new_profiles, stale_profiles, idx>>
        ELSE /\ Exit("error", "OSError")
             /\ UNCHANGED <<file, steps>>
    /\ log' = {}
    /\ UNCHANGED <<clock, runs, file0, fetched, reads, writes, joined, left, failed, fetch_failure, prev>>

\* lines 134-135, and the return to main, which ends
RsDump ==
    /\ pc = "rs_dump"
    /\ \E ok \in BOOLEAN :
        IF ok
        THEN /\ file' = Valid(cache.profiles, cache.last_updated)
             /\ writes' = writes + 1
             /\ log' = {"I:stale_updated"}
             /\ Exit("done", "none")
        ELSE /\ Exit("error", "OSError")
             /\ log' = {}
             /\ UNCHANGED <<file, writes>>
    /\ UNCHANGED <<clock, runs, file0, fetched, reads, joined, left, failed, steps, fetch_failure, prev>>

(* ------------------------------------------------------------ environment *)
\* the process is killed between two steps
Kill ==
    /\ pc \in Running
    /\ Exit("killed", "none")
    /\ log' = {}
    /\ UNCHANGED <<file, clock, runs, fetch_failure>>
    /\ UNCHANGED History

Next ==
    \/ Main
    \/ FetchPageOk
    \/ FetchPageStatus
    \/ FetchPageRaise
    \/ UpdateCacheLoad
    \/ UcPush
    \/ UcOpen
    \/ UcDump
    \/ RemoveStaleLoad
    \/ RsPush
    \/ RsOpen
    \/ RsDump
    \/ Kill

\* any sequence of at most MaxRuns runs of main
Spec == Init /\ [][Next]_vars

(* ------------------------------------------------- vocabulary of the claims *)
\* the member set a load of the record f yields (empty when it does not parse)
Members(f) == ToSet(f.profiles)

P == Members(file0)            \* prior member set of the run
F == fetched                   \* fetched member set of the run
Added == F \ P
Removed == P \ F

\* the run fetched a non-empty list and main returned
Completed == pc = "done" /\ fetched # {}

Count(e) == Cardinality({i \in DOMAIN steps : steps[i] = e})

(* ----------------------------------------------------------------- claims *)
\* C1: after a run of main that completes with a non-empty fetched list, the
\* persisted record parses and its member set is exactly the fetched set,
\* whatever the record held (or did not hold) when the run started.
C1_Convergence ==
    Completed => file.kind = "valid" /\ Members(file) = F

\* a completed run that had identities to add, to remove and to keep
C1_Witness ==
    /\ Completed
    /\ Added # {} /\ Removed # {} /\ P \cap F # {}
    /\ Members(file) = F

\* all notification attempts of the run are made: main returned after a
\* non-empty fetch, or remove_stale_profiles has left its for loop
AttemptsMade == Completed \/ pc \in {"rs_open", "rs_dump"}

C4_OneReadOneWrite ==
    Completed =>
        /\ reads = 1
        /\ writes = IF Added # {} \/ Removed # {} THEN 1 ELSE 0

\* C4 as amended: a run that completes with a non-empty fetched list loads the
\* record exactly twice, once at the start of each phase, and overwrites it
\* once for a non-empty added set and once more for a non-empty removed set
\* (twice when both are non-empty, never when both are empty); a run whose
\* fetch returned nothing neither loads nor overwrites the record.
C4_ReadsAndWritesPerPhase ==
    pc = "done" =>
        IF fetched = {}
        THEN reads = 0 /\ writes = 0
        ELSE /\ reads = 2
             /\ writes = (IF Added # {} THEN 1 ELSE 0) + (IF Removed # {} THEN 1 ELSE 0)
             /\ Count("read") = reads /\ Count("write") = writes

\* a completed run with identities to add and to remove: two loads, two writes
C4_Witness ==
    /\ Completed
    /\ Added # {} /\ Removed # {}
    /\ reads = 2 /\ writes = 2

\* the positions of steps, for the order of a run
Pos == DOMAIN steps
Before(a, b) == \E i, j \in Pos : i < j /\ steps[i] = a /\ steps[j] = b

\* C5 as stated: no write to the record comes before a notification attempt of
\* the same run, and no "Left Segment" attempt before a "Joined Segment" one.
C5_PersistComesLast ==
    /\ ~Before("write", "joined")
    /\ ~Before("write", "left")
    /\ ~Before("left", "joined")

\* the step at position i may follow the steps before it
InOrder(i) ==
    CASE steps[i] = "fetch" -> i = 1
      [] steps[i] = "read" ->
            \/ i = 2
            \/ i = 3 /\ steps[2] = "read"
            \/ i > 3 /\ steps[i - 1] = "write" /\ steps[i - 2] = "joined"
      [] steps[i] = "joined" ->
            \/ i = 3 /\ steps[2] = "read"
            \/ i > 3 /\ steps[i - 1] = "joined"
      [] steps[i] = "left" ->
            \/ i > 3 /\ steps[i - 1] = "read"
            \/ i > 3 /\ steps[i - 1] = "left"
      [] steps[i] = "write" ->
            i > 3 /\ steps[i - 1] \in {"joined", "left"}

\* C5 as amended: a run goes fetch, load, all "Joined Segment" attempts, the
\* write of the add phase, load, all "Left Segment" attempts, the write of the
\* remove phase.  Each write directly follows the last attempt of its phase;
\* no "Joined Segment" attempt follows a write or a "Left Segment" attempt; the
\* only write a "Left Segment" attempt can follow is the add phase's.
C5_PersistEndsEachPhase ==
    /\ \A i \in Pos : InOrder(i)
    /\ Count("read") <= 2 /\ Count("write") <= 2

\* a completed run that made attempts of both kinds and wrote after each kind
C5_Witness ==
    /\ Completed
    /\ Count("joined") >= 2 /\ Count("left") >= 1
    /\ Before("write", "left")
    /\ steps[Len(steps)] = "write"

\* C6: while the fetch of a run has returned nothing (the segment is empty or a
\* page request got a status other than 200), the run has made no notification
\* attempt of either kind, has neither loaded nor written the record, and the
\* record is what it was when the run started.
C6_NoFalseRemovalsOnEmptyFetch ==
    runs > 0 /\ fetched = {} =>
        /\ joined = NoAttempts /\ left = NoAttempts
        /\ reads = 0 /\ writes = 0
        /\ Count("read") = 0 /\ Count("write") = 0
        /\ file = file0

\* a run that ended on a failed fetch while the record held members
C6_Witness ==
    /\ pc = "done" /\ fetched = {}
    /\ log = {"E:fetch_failed", "W:no_profiles"}
    /\ Members(file0) # {}
    /\ file = file0

\* the run follows a completed run that fetched the same non-empty set
SecondOfTwo ==
    /\ prev.outcome = "done"
    /\ prev.fetched # {}
    /\ prev.fetched = F

\* C7: in a run that follows a completed run with the same non-empty fetched
\* set, the added and removed sets are empty, no notification attempt is made,
\* nothing is written, and the record (members and last_updated) stays what the
\* first run left.
C7_Idempotence ==
    SecondOfTwo =>
        /\ Added = {} /\ Removed = {}
        /\ joined = NoAttempts /\ left = NoAttempts
        /\ writes = 0 /\ Count("write") = 0
        /\ file = file0
        /\ pc \notin {"uc_push", "uc_open", "uc_dump", "rs_push", "rs_open", "rs_dump"}

\* the second of two completed runs with the same fetched set, where the first
\* one had to add and to remove
C7_Witness ==
    /\ SecondOfTwo
    /\ pc = "done"
    /\ prev.members \ F # {} /\ F \ prev.members # {}
    /\ file = file0

\* C8 as stated: when the record does not hold a usable structure at the start
\* of a run (missing, unreadable, unparseable, or without a "profiles" field),
\* the load of update_cache raises nothing, and the add phase works on the
\* empty default state, so that every fetched identity is new.
C8_LoadNeverFails ==
    file0.kind # "valid" /\ reads >= 1 =>
        /\ exc \notin {"KeyError", "PermissionError"}
        /\ pc = "uc_push" => cache = DefaultCache /\ ToSet(new_profiles) = F

\* a notification attempt of this run has failed
SomeFailed == failed # <<>>

\* C9: a failed notification attempt does not end the run in an exception of
\* the notifier, and the loop goes on; no identity gets a second attempt of the
\* same kind; and a completed run with a failed attempt has made one attempt
\* for every identity of the added and removed sets and left the record as
\* without the failure: the fetched set, with the identity of the failed attempt
\* in it if it joined and out of it if it left.
C9_NotificationFailureIsolated ==
    /\ \A e \in Ids : joined[e] <= 1 /\ left[e] <= 1
    /\ log \cap {"E:send_failed", "E:send_error"} # {} =>
        /\ SomeFailed
        /\ pc \in {"uc_push", "uc_open", "rs_push", "rs_open"}
    /\ SomeFailed =>
        /\ exc # "RequestException"
        /\ pc = "error" => exc = "OSError"
        /\ failed[1] = "Joined Segment" => joined[failed[2]] = 1
        /\ failed[1] = "Left Segment" => left[failed[2]] = 1
        /\ Completed =>
            /\ \A e \in Added : joined[e] = 1
            /\ \A e \in Removed : left[e] = 1
            /\ file.kind = "valid" /\ Members(file) = F
            /\ failed[1] = "Joined Segment" => failed[2] \in Members(file)
            /\ failed[1] = "Left Segment" => failed[2] \notin Members(file)
            /\ file.last_updated > file0.last_updated

\* a completed run whose first "Joined Segment" attempt failed, and which went
\* on to notify a second joiner and a leaver
C9_Witness ==
    /\ Completed
    /\ SomeFailed /\ failed[1] = "Joined Segment"
    /\ steps[3] = "joined" /\ Count("joined") = 2 /\ Count("left") = 1
    /\ new_profiles = <<>>
    /\ failed[2] \in Members(file)

\* C10: compared with the record at the start of the run, last_updated differs
\* exactly when the member set differs; a record that parses never carries a
\* last_updated earlier than the one the run, or the run before it, started
\* with.
C10_LastUpdated ==
    /\ (file.last_updated # file0.last_updated) <=> (Members(file) # Members(file0))
    /\ file.kind = "valid" =>
        /\ file.last_updated >= file0.last_updated
        /\ file.last_updated >= prev.last_updated
        /\ file.last_updated <= clock

\* a second completed run that only removed, after a first run that changed the
\* record: the stamp moved forward twice
C10_Witness ==
    /\ Completed
    /\ prev.outcome = "done"
    /\ Added = {} /\ Removed # {}
    /\ prev.last_updated # None
    /\ file0.last_updated > prev.last_updated
    /\ file.last_updated > file0.last_updated

\* a page request of this run failed
FetchFailed == fetch_failure.page > 0

\* C11: once a page request of a run has failed (requests.get raised, or the
\* status was not 200), on the first page or on a later one, fetch_profiles
\* hands nothing to main (the identities collected so far are dropped), the run
\* is over, it has made no notification attempt, it has neither loaded nor
\* written the record, and the record is what it was when the run started.
C11_FetchFailureAbortsBeforeReconciliation ==
    FetchFailed =>
        /\ pc \in {"done", "error"}
        /\ fetched = {} /\ profiles = <<>>
        /\ joined = NoAttempts /\ left = NoAttempts
        /\ reads = 0 /\ writes = 0
        /\ steps = <<"fetch">>
        /\ file = file0

\* the request for the second page got a bad status after the first page had
\* brought an identity the record did not hold, and the record held others
C11_Witness ==
    /\ fetch_failure.page = 2 /\ fetch_failure.how = "status"
    /\ fetch_failure.collected \ Members(file0) # {}
    /\ Members(file0) \ fetch_failure.collected # {}
    /\ pc = "done"
    /\ file = file0

\* the run before this one was killed, having fetched the same set F if it got
\* as far as the end of the fetch, and this run completed
AfterCrash ==
    /\ Completed
    /\ prev.outcome = "killed"
    /\ prev.fetched \in {{}, F}

\* attempts of kind "joined" / "left" for id, the killed run's and this run's
BothJoined(id) == prev.joined[id] + joined[id]
BothLeft(id) == prev.left[id] + left[id]

\* C12 as stated: when a run was killed at any point and the next run completes
\* with the same non-empty fetched set F, the persisted member set is F, and
\* over the two runs every identity of F - P got at least one "Joined Segment"
\* attempt and every identity of P - F at least one "Left Segment" attempt, P
\* being the member set of the record when the killed run started.
C12_AtLeastOnceAcrossCrash ==
    AfterCrash =>
        /\ file.kind = "valid" /\ Members(file) = F
        /\ \A id \in F \ prev.members : BothJoined(id) >= 1
        /\ \A id \in prev.members \ F : BothLeft(id) >= 1

\* C13: in a run whose fetched set equals the member set of the record, in
\* whatever order the record lists it, no notification attempt is made, the
\* record is not opened for writing, and the record (members and last_updated)
\* stays what it was when the run started.
C13_NoChangeRunIsNoOp ==
    file0.kind = "valid" /\ F # {} /\ F = P =>
        /\ joined = NoAttempts /\ left = NoAttempts
        /\ writes = 0 /\ Count("write") = 0
        /\ file = file0
        /\ pc \in {"update_cache", "remove_stale_profiles", "done", "killed"}

\* a completed run that fetched the two identities of a record which lists
\* them in the order b, a: two loads, no stale profile found
C13_Witness ==
    /\ Completed
    /\ file0.kind = "valid" /\ F = P
    /\ Cardinality(F) >= 2
    /\ reads = 2
    /\ log = {"I:no_stale"}
    /\ file.profiles = <<"b", "a">>

\* C14: in every run the set update_cache computes as new and the set
\* remove_stale_profiles computes as stale (from the record update_cache has
\* rewritten) are disjoint, and no identity gets both a "Joined Segment" and a
\* "Left Segment" attempt in the run.
C14_Disjointness ==
    /\ ToSet(new_profiles) \cap ToSet(stale_profiles) = {}
    /\ \A id \in Ids : ~(joined[id] >= 1 /\ left[id] >= 1)

\* a completed run that made attempts of both kinds, after both phases wrote
C14_Witness ==
    /\ Completed
    /\ \E id \in Ids : joined[id] >= 1
    /\ \E id \in Ids : left[id] >= 1
    /\ writes = 2

\* a with block of this run truncated the record and json.dump did not
\* finish, and the process was not killed in the block
DumpFailed ==
    /\ Count("write") > writes
    /\ pc \notin {"uc_dump", "rs_dump", "killed"}

\* the run ended in the OSError of open(CACHE_FILE, "w") or of json.dump
WriteRaised == exc = "OSError"

\* C15: a failed write of the record, in update_cache or in
\* remove_stale_profiles, ends the run with the exception (it is not logged and
\* passed over); nothing of the run executes after it: a failure in update_cache
\* is followed by no second load and no "Left Segment" attempt, and the last
\* thing the run did is the write or the attempt before it; and neither
\* "cache updated" message is the run's last log line.
C15_WriteFailureIsSurfaced ==
    /\ DumpFailed => WriteRaised
    /\ WriteRaised =>
        /\ pc = "error"
        /\ log \cap {"I:cache_updated", "I:stale_updated"} = {}
        /\ steps[Len(steps)] \in {"write", "joined", "left"}
        /\ reads = 1 => left = NoAttempts /\ Count("left") = 0

\* json.dump failed in update_cache after a "Joined Segment" attempt, in a run
\* that had a stale profile to remove: the run ended there, the record truncated
C15_Witness ==
    /\ DumpFailed /\ WriteRaised
    /\ reads = 1 /\ writes = 0
    /\ joined # NoAttempts
    /\ P \ F # {}
    /\ file = Corrupt

\* the exceptions of the requests library: of requests.get and requests.post
TransportErrors == {"ConnectionError", "RequestException"}

\* C16 as stated: a run in which a page request failed (requests.get raised, or
\* the status was not 200) or a notification attempt failed (requests.post
\* raised, or the status was not 202) never ends in an exception of the
\* transport, and a run whose fetch failed ends normally with the failure in
\* its log.
C16_FetchAndNotifyErrorsAreLogged ==
    /\ FetchFailed \/ SomeFailed => exc \notin TransportErrors
    /\ FetchFailed => pc = "done" /\ "E:fetch_failed" \in log

\* C17: when main calls remove_stale_profiles (the fetched list was not empty
\* and update_cache returned), the record exists and parses, whatever it was
\* when the run started, so the except branch of lines 115-117, which logs the
\* warning and skips the removal, is never taken.
C17_RemovalFindsReadableRecord ==
    /\ pc = "remove_stale_profiles" => file.kind = "valid"
    /\ "W:skip_stale" \notin log

\* a run that started with a record that did not parse has completed with the
\* second load done and its no-stale branch taken
C17_Witness ==
    /\ Completed
    /\ file0 = Corrupt
    /\ reads = 2
    /\ log = {"I:no_stale"}
    /\ file.kind = "valid"

\* C18: the profiles list of the record never holds an identity twice, in any
\* state reached by runs from a missing or empty record (and from any record
\* without repetition), whatever the fetched lists, which may repeat
\* identities; nor does the list a with block is about to dump.
C18_NoDuplicatesStored ==
    /\ NoDup(file.profiles)
    /\ pc \in {"uc_dump", "rs_dump"} => NoDup(cache.profiles)

\* the second of two runs, the first of which started without members and
\* completed: the fetched list repeats an identity, and update_cache has added
\* it to a record that held another
C18_Witness ==
    /\ prev.outcome = "done" /\ prev.members = {} /\ prev.fetched # {}
    /\ pc = "remove_stale_profiles"
    /\ ~NoDup(profiles)
    /\ writes = 1
    /\ Len(file.profiles) >= 2
====
